---- MODULE Spec2Model ----
(***************************************************************************)
(* Pagination and media layout of vvroom's document tools:                 *)
(*   textbook-editor/page_splitter.py  parse_content_blocks,               *)
(*                                     split_into_pages                    *)
(*   tools/images-to-pdf.py            can_fit_with_shrink, create_pdf     *)
(*   tools/journal-to-pdf.py           create_pdf, add_split_image         *)
(*                                                                         *)
(* Strings are run-length encoded: a string is a sequence of runs <<c, n>> *)
(* (n >= 1 copies of the one-character string c), adjacent runs holding    *)
(* different characters.  Every Python str operation the code uses is an   *)
(* operator on that form, so a 3575-character line is one run.             *)
(* Python lists are 0-based; the sequences here are 1-based, so the loop   *)
(* index i of the code is i + 1 here.                                      *)
(***************************************************************************)
EXTENDS Integers, Sequences, FiniteSets, TLC

VARIABLES
    content,        \* parse_content_blocks: the input text
    lines,          \* content.split('\n')
    i,              \* index of the line being scanned
    blocks,         \* the ContentBlocks emitted so far
    current_block,  \* lines buffered for the block being collected
    current_type,
    in_code_block,
    in_table,
    pages,          \* split_into_pages: the page texts emitted so far
    page_blocks,    \* history: the block list of every page emitted
    current_page,
    current_chars,
    k,              \* index of the next block split_into_pages takes
    img_width,      \* images-to-pdf / journal-to-pdf: img.size
    img_height,
    scaled_width,
    scaled_height,
    can_fit,
    total_pages,
    scale_factor,
    remaining_height,
    crop_y_start,
    page_num,
    canvas,         \* images-to-pdf: one record for each page drawn
    scale,          \* journal-to-pdf
    num_pages,
    crop_height_per_page,
    story,          \* journal-to-pdf: the flowables appended
    pc

segVars == <<content, lines, i, blocks, current_block, current_type,
             in_code_block, in_table>>
packVars == <<pages, page_blocks, current_page, current_chars, k>>
imgVars == <<img_width, img_height, scaled_width, scaled_height, can_fit,
             total_pages, scale_factor, remaining_height, crop_y_start,
             page_num, canvas>>
journalVars == <<scale, num_pages, crop_height_per_page, story>>
vars == <<segVars, packVars, imgVars, journalVars, pc>>

-----------------------------------------------------------------------------
(* Python str on run-length encoded strings *)

Run(c, n) == <<c, n>>
Str(c, n) == <<Run(c, n)>>
EmptyStr == <<>>
NL == "\n"
\* the grave accent of a code fence, which a TLA+ string cannot hold
Backtick == "bq"
Whitespace == {" ", "\t", NL}

RECURSIVE StrLen(_)
StrLen(s) == IF s = <<>> THEN 0 ELSE s[1][2] + StrLen(Tail(s))

\* s + t
Concat(s, t) ==
    IF s = <<>> THEN t
    ELSE IF t = <<>> THEN s
    ELSE IF s[Len(s)][1] = t[1][1]
         THEN SubSeq(s, 1, Len(s) - 1)
              \o <<Run(t[1][1], s[Len(s)][2] + t[1][2])>> \o Tail(t)
         ELSE s \o t

RECURSIVE JoinNL(_)
\* '\n'.join(ss)
JoinNL(ss) ==
    IF ss = <<>> THEN EmptyStr
    ELSE IF Len(ss) = 1 THEN ss[1]
    ELSE Concat(Concat(ss[1], Str(NL, 1)), JoinNL(Tail(ss)))

RECURSIVE SplitFrom(_, _)
\* the lines of the text that is cur followed by s, where cur holds no '\n'
SplitFrom(cur, s) ==
    IF s = <<>> THEN <<cur>>
    ELSE IF s[1][1] = NL
         THEN <<cur>> \o [j \in 1..(s[1][2] - 1) |-> EmptyStr]
                      \o SplitFrom(EmptyStr, Tail(s))
         ELSE SplitFrom(cur \o <<s[1]>>, Tail(s))

\* s.split('\n')
SplitNL(s) == SplitFrom(EmptyStr, s)

RECURSIVE LStrip(_)
LStrip(s) ==
    IF s # <<>> /\ s[1][1] \in Whitespace THEN LStrip(Tail(s)) ELSE s

RECURSIVE RStrip(_)
RStrip(s) ==
    IF s # <<>> /\ s[Len(s)][1] \in Whitespace
    THEN RStrip(SubSeq(s, 1, Len(s) - 1)) ELSE s

\* s.strip()
Strip(s) == RStrip(LStrip(s))

\* s.startswith(p)
StartsWith(s, p) ==
    \/ p = <<>>
    \/ /\ Len(s) >= Len(p)
       /\ \A j \in 1..(Len(p) - 1) : s[j] = p[j]
       /\ s[Len(p)][1] = p[Len(p)][1]
       /\ s[Len(p)][2] >= p[Len(p)][2]

RECURSIVE SkipChars(_, _)
\* s without its longest prefix of characters of cs
SkipChars(s, cs) ==
    IF s # <<>> /\ s[1][1] \in cs THEN SkipChars(Tail(s), cs) ELSE s

Digits == {"0", "1", "2", "3", "4", "5", "6", "7", "8", "9"}

\* re.match(r'^[\s]*[-*+]\s', s)
MatchBullet(s) ==
    LET r == SkipChars(s, Whitespace)
    IN /\ Len(r) >= 2
       /\ r[1][1] \in {"-", "*", "+"}
       /\ r[1][2] = 1
       /\ r[2][1] \in Whitespace

\* re.match(r'^[\s]*\d+\.\s', s)
MatchNumbered(s) ==
    LET r == SkipChars(s, Whitespace)
        d == SkipChars(r, Digits)
    IN /\ d # r
       /\ Len(d) >= 2
       /\ d[1] = Run(".", 1)
       /\ d[2][1] \in Whitespace

\* re.match(r'^#+\s*Step\s+\d+\.\d+', s)
MatchStep(s) ==
    /\ s # <<>>
    /\ s[1][1] = "#"
    /\ LET w == SkipChars(Tail(s), Whitespace)
       IN /\ Len(w) >= 5
          /\ SubSeq(w, 1, 4) = <<Run("S", 1), Run("t", 1), Run("e", 1), Run("p", 1)>>
          /\ w[5][1] \in Whitespace
          /\ LET n == SkipChars(SubSeq(w, 5, Len(w)), Whitespace)
                 d == SkipChars(n, Digits)
             IN /\ d # n
                /\ Len(d) >= 2
                /\ d[1] = Run(".", 1)
                /\ d[2][1] \in Digits

-----------------------------------------------------------------------------
(* parse_content_blocks: how a line is classified *)

IsFence(line) == StartsWith(Strip(line), Str(Backtick, 3))

IsTableLine(line) ==
    \/ StartsWith(Strip(line), Str("|", 1))
    \/ StartsWith(Strip(line), <<Run("|", 1), Run("-", 1)>>)
    \/ StartsWith(Strip(line), <<Run("|", 1), Run(":", 1)>>)

IsRule(line) == Strip(line) \in {Str("-", 3), Str("*", 3), Str("_", 3)}

IsHeadingLine(line) == StartsWith(line, Str("#", 1))

IsListItem(line) == MatchBullet(line) \/ MatchNumbered(line)

IsBlank(line) == Strip(line) = EmptyStr

IsContinuation(line) == StartsWith(line, Str(" ", 2)) /\ Strip(line) # EmptyStr

\* the branch of the scanning loop's if-chain that takes the line
LineBranch(line, inCode, inTable) ==
    IF IsFence(line) THEN "fence"
    ELSE IF inCode THEN "collect"
    ELSE IF IsTableLine(line) THEN "table"
    ELSE IF inTable THEN "table_end"
    ELSE IF IsRule(line) THEN "hr"
    ELSE IF IsHeadingLine(line) THEN "heading"
    ELSE IF IsListItem(line) THEN "list"
    ELSE IF IsBlank(line) THEN "blank"
    ELSE "text"

\* ContentBlock(content='\n'.join(ls), block_type=t, char_count=len(content))
MkBlock(ls, t) ==
    [content |-> JoinNL(ls), block_type |-> t, char_count |-> StrLen(JoinNL(ls))]

\* ContentBlock.is_break_point
is_break_point(b) == b.block_type \in {"heading", "hr", "step"}

\* "if current_block: blocks.append(ContentBlock(...))"
FlushCurrent(bs, cb, ct) == IF cb # <<>> THEN Append(bs, MkBlock(cb, ct)) ELSE bs

RECURSIVE SkipBlank(_, _)
\* "while i < len(lines) and lines[i].strip() == '': i += 1"
\* (the index is evaluated once, by binding it in a singleton set)
SkipBlank(ls, j) ==
    CHOOSE r \in {IF v <= Len(ls) /\ IsBlank(ls[v]) THEN SkipBlank(ls, v + 1) ELSE v :
                  v \in {j}} : TRUE

\* a heading that takes no paragraph
SkipNoParagraph(ls, j) == j

RECURSIVE SkipParagraph(_, _)
\* the heading's first paragraph: the lines up to a blank line, heading,
\* fence or table row
SkipParagraph(ls, j) ==
    CHOOSE r \in {IF /\ v <= Len(ls)
                     /\ ~IsBlank(ls[v])
                     /\ ~StartsWith(ls[v], Str("#", 1))
                     /\ ~StartsWith(Strip(ls[v]), Str(Backtick, 3))
                     /\ ~StartsWith(Strip(ls[v]), Str("|", 1))
                  THEN SkipParagraph(ls, v + 1) ELSE v : v \in {j}} : TRUE

RECURSIVE ListEndAbsorbing(_, _)
\* a list that takes every blank line after it
ListEndAbsorbing(ls, j) ==
    IF j > Len(ls) THEN j
    ELSE IF IsListItem(ls[j]) \/ IsContinuation(ls[j]) \/ IsBlank(ls[j])
         THEN ListEndAbsorbing(ls, j + 1)
         ELSE j

RECURSIVE ListEnd(_, _)
\* the index at which the list-collecting loop stops
ListEnd(ls, j) ==
    IF j > Len(ls) THEN j
    ELSE IF IsListItem(ls[j]) \/ IsContinuation(ls[j]) \/ IsBlank(ls[j])
         THEN IF IsBlank(ls[j])
              THEN LET n == SkipBlank(ls, j + 1)
                   IN IF n <= Len(ls) /\ IsListItem(ls[n])
                      THEN ListEnd(ls, j + 1) ELSE j
              ELSE ListEnd(ls, j + 1)
         ELSE j

-----------------------------------------------------------------------------
(* Natural numbers of any size: little-endian sequences of limbs in base   *)
(* 2^14 with no leading zero limb (TLC's integers are 32 bits wide, a      *)
(* Python float's mantissa 53).  An operator whose name ends in V expects  *)
(* its arguments to be values; the operator without the V evaluates each   *)
(* argument once, by binding it in a singleton set, and applies it.        *)

LimbBits == 14
Limb == 16384

RECURSIVE BFromInt(_)
BFromInt(n) == IF n = 0 THEN <<>> ELSE <<n % Limb>> \o BFromInt(n \div Limb)

RECURSIVE BToIntV(_)
BToIntV(x) == IF x = <<>> THEN 0 ELSE x[1] + Limb * BToIntV(Tail(x))

BToInt(x) == CHOOSE r \in {BToIntV(u) : u \in {x}} : TRUE

RECURSIVE BTrimV(_)
BTrimV(x) ==
    IF x # <<>> /\ x[Len(x)] = 0 THEN BTrimV(SubSeq(x, 1, Len(x) - 1)) ELSE x

BTrim(x) == CHOOSE r \in {BTrimV(u) : u \in {x}} : TRUE

RECURSIVE BAddC(_, _, _)
BAddC(x, y, c) ==
    IF x = <<>> /\ y = <<>> THEN (IF c = 0 THEN <<>> ELSE <<c>>)
    ELSE LET a == IF x = <<>> THEN 0 ELSE x[1]
             b == IF y = <<>> THEN 0 ELSE y[1]
             t == a + b + c
         IN <<t % Limb>> \o BAddC(IF x = <<>> THEN x ELSE Tail(x),
                                  IF y = <<>> THEN y ELSE Tail(y), t \div Limb)

BAdd(x, y) == CHOOSE r \in {BAddC(u, v, 0) : u \in {x}, v \in {y}} : TRUE

RECURSIVE BSubC(_, _, _)
BSubC(x, y, c) ==
    IF x = <<>> THEN <<>>
    ELSE LET b == IF y = <<>> THEN 0 ELSE y[1]
             t == x[1] - b - c
         IN <<t % Limb>> \o BSubC(Tail(x), IF y = <<>> THEN y ELSE Tail(y),
                                  IF t < 0 THEN 1 ELSE 0)

\* x - y, for x >= y
BSub(x, y) == CHOOSE r \in {BTrim(BSubC(u, v, 0)) : u \in {x}, v \in {y}} : TRUE

RECURSIVE BCmpFrom(_, _, _)
BCmpFrom(x, y, j) ==
    IF j = 0 THEN 0
    ELSE IF x[j] # y[j] THEN (IF x[j] < y[j] THEN -1 ELSE 1)
    ELSE BCmpFrom(x, y, j - 1)

BCmpV(x, y) ==
    IF Len(x) # Len(y) THEN (IF Len(x) < Len(y) THEN -1 ELSE 1)
    ELSE BCmpFrom(x, y, Len(x))

\* -1, 0 or 1 as x is less than, equal to or greater than y
BCmp(x, y) == CHOOSE r \in {BCmpV(u, v) : u \in {x}, v \in {y}} : TRUE

RECURSIVE BMulC(_, _, _)
BMulC(x, n, c) ==
    IF x = <<>> THEN BFromInt(c)
    ELSE LET t == x[1] * n + c
         IN <<t % Limb>> \o BMulC(Tail(x), n, t \div Limb)

\* x * n, for 0 <= n < 2^16
BMulSmall(x, n) == CHOOSE r \in {BTrim(BMulC(u, v, 0)) : u \in {x}, v \in {n}} : TRUE

RECURSIVE BMulV(_, _)
BMulV(x, y) ==
    IF x = <<>> \/ y = <<>> THEN <<>>
    ELSE BAdd(BMulSmall(x, y[1]), BTrim(<<0>> \o BMulV(x, Tail(y))))

BMul(x, y) == CHOOSE r \in {BMulV(u, v) : u \in {x}, v \in {y}} : TRUE

RECURSIVE BitLen(_)
BitLen(n) == IF n = 0 THEN 0 ELSE 1 + BitLen(n \div 2)

BBitLenV(x) ==
    IF x = <<>> THEN 0 ELSE (Len(x) - 1) * LimbBits + BitLen(x[Len(x)])

BBitLen(x) == CHOOSE r \in {BBitLenV(u) : u \in {x}} : TRUE

BShlV(x, s) ==
    IF x = <<>> THEN x
    ELSE [j \in 1..(s \div LimbBits) |-> 0] \o BMulSmall(x, 2 ^ (s % LimbBits))

\* x * 2^s
BShl(x, s) == CHOOSE r \in {BShlV(u, v) : u \in {x}, v \in {s}} : TRUE

\* the limbs of x from limb j on, each taking over the low r bits of the next
ShiftLimbs(y, r) ==
    [j \in 1..Len(y) |->
        (y[j] \div 2 ^ r)
        + (IF j < Len(y) THEN (y[j + 1] % 2 ^ r) * 2 ^ (LimbBits - r) ELSE 0)]

BShrV(x, s) ==
    IF s \div LimbBits >= Len(x) THEN <<>>
    ELSE BTrim(ShiftLimbs(SubSeq(x, s \div LimbBits + 1, Len(x)), s % LimbBits))

\* x \div 2^s
BShr(x, s) == CHOOSE r \in {BShrV(u, v) : u \in {x}, v \in {s}} : TRUE

BBitV(x, j) ==
    IF j \div LimbBits >= Len(x) THEN 0
    ELSE (x[j \div LimbBits + 1] \div 2 ^ (j % LimbBits)) % 2

\* bit j of x
BBit(x, j) == CHOOSE r \in {BBitV(u, v) : u \in {x}, v \in {j}} : TRUE

RECURSIVE DivDigit(_, _, _, _)
\* the largest t < Limb with t * y <= r that agrees with d above bit b
DivDigit(r, y, d, b) ==
    IF b < 0 THEN d
    ELSE IF BCmp(BMulSmall(y, d + 2 ^ b), r) <= 0
         THEN DivDigit(r, y, d + 2 ^ b, b - 1)
         ELSE DivDigit(r, y, d, b - 1)

\* quotient and remainder once the digit d of the running remainder r is known
DivOutV(q, r, y, d) == <<BTrim(<<d>> \o q), BSub(r, BMulSmall(y, d))>>

DivOut(q, r, y, d) == CHOOSE o \in {DivOutV(q, r, y, u) : u \in {d}} : TRUE

\* long division, one limb of x a step: p is the result for the limbs above
DivStepV(limb, y, p) ==
    CHOOSE o \in {DivOut(p[1], r, y, DivDigit(r, y, 0, LimbBits - 1)) :
                  r \in {BTrim(<<limb>> \o p[2])}} : TRUE

RECURSIVE BDivLimbs(_, _, _)
BDivLimbs(x, y, j) ==
    IF j >= Len(x) THEN <<<<>>, <<>>>>
    ELSE CHOOSE o \in {DivStepV(x[j + 1], y, p) : p \in {BDivLimbs(x, y, j + 1)}} : TRUE

\* <<x \div y, x % y>>, for y > 0
BDivMod(x, y) == CHOOSE o \in {BDivLimbs(u, v, 0) : u \in {x}, v \in {y}} : TRUE

-----------------------------------------------------------------------------
(* Python float (IEEE 754 binary64), for the finite values >= 0 the code   *)
(* computes: [m, e] is m * 2^e, with m = 0 or 2^52 <= m < 2^53; every      *)
(* operation rounds its exact result to nearest, ties to even.             *)

MantDig == 53

FZero == [m |-> <<>>, e |-> 0]

\* x with the s > 0 low bits rounded away: up when they are more than half,
\* or half and the kept part is odd
RoundBits(x, s, sticky) ==
    LET q == BShr(x, s)
        half == BBit(x, s - 1) = 1
        rest == sticky \/ BShl(BShr(x, s - 1), s - 1) # x
    IN IF half /\ (rest \/ BBit(q, 0) = 1) THEN BAdd(q, <<1>>) ELSE q

\* the rounded mantissa m1 of s dropped bits, renormalised
Renorm(m1, e, s) ==
    IF BBitLen(m1) > MantDig THEN [m |-> BShr(m1, 1), e |-> e + s + 1]
    ELSE [m |-> m1, e |-> e + s]

RenormOf(m1, e, s) == CHOOSE r \in {Renorm(u, e, s) : u \in {m1}} : TRUE

FRoundV(x, e, sticky) ==
    IF x = <<>> THEN FZero
    ELSE IF BBitLenV(x) <= MantDig
         THEN [m |-> BShl(x, MantDig - BBitLenV(x)), e |-> e - (MantDig - BBitLenV(x))]
         ELSE RenormOf(RoundBits(x, BBitLenV(x) - MantDig, sticky), e,
                       BBitLenV(x) - MantDig)

\* the float nearest to (x + d) * 2^e, where 0 <= d < 1 and d > 0 iff sticky
FRound(x, e, sticky) ==
    CHOOSE r \in {FRoundV(u, v, w) : u \in {x}, v \in {e}, w \in {sticky}} : TRUE

\* float(n)
FFromInt(n) == FRound(BFromInt(n), 0, FALSE)

FMulIntV(n, f) ==
    IF f.m = <<>> \/ n = 0 THEN FZero ELSE FRound(BMulSmall(f.m, n), f.e, FALSE)

\* n * f, for an int 0 <= n < 2^16
FMulInt(n, f) == CHOOSE r \in {FMulIntV(u, v) : u \in {n}, v \in {f}} : TRUE

FMulV(f, g) ==
    IF f.m = <<>> \/ g.m = <<>> THEN FZero
    ELSE FRound(BMul(f.m, g.m), f.e + g.e, FALSE)

\* f * g
FMul(f, g) == CHOOSE r \in {FMulV(u, v) : u \in {f}, v \in {g}} : TRUE

\* the quotient rounded, qr being the mantissas' quotient and remainder
FDivRound(qr, e) == FRound(qr[1], e, qr[2] # <<>>)

FDivV(f, g) ==
    IF f.m = <<>> \/ g.m = <<>> THEN FZero
    ELSE CHOOSE r \in {FDivRound(qr, f.e - g.e - (MantDig + 3)) :
                       qr \in {BDivMod(BShl(f.m, MantDig + 3), g.m)}} : TRUE

\* f / g, for g > 0
FDiv(f, g) == CHOOSE r \in {FDivV(u, v) : u \in {f}, v \in {g}} : TRUE

FMinExp(f, g) == IF f.e < g.e THEN f.e ELSE g.e

\* the integer f / 2^e, for e <= f.e
FScaled(f, e) == BShl(f.m, f.e - e)

FAddV(f, g) ==
    IF f.m = <<>> THEN g
    ELSE IF g.m = <<>> THEN f
    ELSE FRound(BAdd(FScaled(f, FMinExp(f, g)), FScaled(g, FMinExp(f, g))),
                FMinExp(f, g), FALSE)

\* f + g
FAdd(f, g) == CHOOSE r \in {FAddV(u, v) : u \in {f}, v \in {g}} : TRUE

FSubV(f, g) ==
    IF g.m = <<>> \/ f.m = <<>> THEN f
    ELSE FRound(BSub(FScaled(f, FMinExp(f, g)), FScaled(g, FMinExp(f, g))),
                FMinExp(f, g), FALSE)

\* f - g, for f >= g
FSub(f, g) == CHOOSE r \in {FSubV(u, v) : u \in {f}, v \in {g}} : TRUE

FLtV(f, g) ==
    IF g.m = <<>> THEN FALSE
    ELSE IF f.m = <<>> THEN TRUE
    ELSE IF f.e # g.e THEN f.e < g.e
    ELSE BCmp(f.m, g.m) < 0

\* f < g
FLt(f, g) == CHOOSE r \in {FLtV(u, v) : u \in {f}, v \in {g}} : TRUE

\* f <= g
FLe(f, g) == ~FLt(g, f)

FMinV(f, g) == IF FLtV(g, f) THEN g ELSE f

\* min(f, g)
FMin(f, g) == CHOOSE r \in {FMinV(u, v) : u \in {f}, v \in {g}} : TRUE

FIntV(f) ==
    IF f.e >= 0 THEN BToInt(BShl(f.m, f.e)) ELSE BToInt(BShr(f.m, 0 - f.e))

\* int(f)
FInt(f) == CHOOSE r \in {FIntV(u) : u \in {f}} : TRUE

FModV(f, g) ==
    IF f.m = <<>> \/ g.m = <<>> THEN FZero
    ELSE FRound(BDivMod(FScaled(f, FMinExp(f, g)), FScaled(g, FMinExp(f, g)))[2],
                FMinExp(f, g), FALSE)

\* math.fmod(f, g), for g > 0
FMod(f, g) == CHOOSE r \in {FModV(u, v) : u \in {f}, v \in {g}} : TRUE

\* CPython's float_floor_div: the quotient div snapped to an integer
FloorSnapV(div, floordiv) ==
    IF div.m = <<>> THEN FZero
    ELSE IF FLt(FDiv(FFromInt(1), FFromInt(2)), FSub(div, floordiv))
         THEN FAdd(floordiv, FFromInt(1))
         ELSE floordiv

FloorSnap(div) ==
    CHOOSE r \in {FloorSnapV(u, v) : u \in {div}, v \in {FFromInt(FInt(div))}} : TRUE

FFloorDivV(f, g) == FloorSnap(FDiv(FSub(f, FMod(f, g)), g))

\* f // g, for f >= 0 and g > 0
FFloorDiv(f, g) == CHOOSE r \in {FFloorDivV(u, v) : u \in {f}, v \in {g}} : TRUE

-----------------------------------------------------------------------------
(* page_splitter.py: configuration *)

TARGET_CHARS == 2750
MIN_CHARS == 2000
MAX_CHARS == 3500

\* the literal 1.3
Literal13 == FDiv(FFromInt(13), FFromInt(10))

\* TARGET_CHARS * 1.3
TargetLimit == FMulInt(TARGET_CHARS, Literal13)

-----------------------------------------------------------------------------
(* parse_content_blocks: one action for each branch of the scanning loop *)

Scanning == pc = "parse" /\ i <= Len(lines)

Takes(branch) == Scanning /\ LineBranch(lines[i], in_code_block, in_table) = branch

\* lines 52-79: a fence line opens or closes a code block
CodeFence ==
    /\ Takes("fence")
    /\ IF in_code_block
       THEN /\ blocks' = Append(blocks, MkBlock(Append(current_block, lines[i]), "code"))
            /\ current_block' = <<>>
            /\ current_type' = "paragraph"
            /\ in_code_block' = FALSE
       ELSE /\ blocks' = FlushCurrent(blocks, current_block, current_type)
            /\ current_block' = <<lines[i]>>
            /\ current_type' = "code"
            /\ in_code_block' = TRUE
    /\ i' = i + 1
    /\ UNCHANGED <<content, lines, in_table, pc>>
    /\ UNCHANGED <<packVars, imgVars, journalVars>>

\* lines 82-85: inside a code block every line is collected
CodeCollect ==
    /\ Takes("collect")
    /\ current_block' = Append(current_block, lines[i])
    /\ i' = i + 1
    /\ UNCHANGED <<content, lines, blocks, current_type, in_code_block, in_table, pc>>
    /\ UNCHANGED <<packVars, imgVars, journalVars>>

\* lines 88-103: a table row starts or continues a table
TableRow ==
    /\ Takes("table")
    /\ IF ~in_table
       THEN /\ blocks' = FlushCurrent(blocks, current_block, current_type)
            /\ current_block' = <<lines[i]>>
            /\ in_table' = TRUE
            /\ current_type' = "table"
       ELSE /\ current_block' = Append(current_block, lines[i])
            /\ UNCHANGED <<blocks, in_table, current_type>>
    /\ i' = i + 1
    /\ UNCHANGED <<content, lines, in_code_block, pc>>
    /\ UNCHANGED <<packVars, imgVars, journalVars>>

\* a table end that leaves in_table set
TableEndKeepsFlag ==
    /\ Takes("table_end")
    /\ blocks' = Append(blocks, MkBlock(current_block, "table"))
    /\ current_block' = <<>>
    /\ current_type' = "paragraph"
    /\ UNCHANGED <<content, lines, i, in_code_block, in_table, pc>>
    /\ UNCHANGED <<packVars, imgVars, journalVars>>

\* lines 104-116: the first other line ends the table and is scanned again
TableEnd ==
    /\ Takes("table_end")
    /\ blocks' = Append(blocks, MkBlock(current_block, "table"))
    /\ current_block' = <<>>
    /\ in_table' = FALSE
    /\ current_type' = "paragraph"
    /\ UNCHANGED <<content, lines, i, in_code_block, pc>>
    /\ UNCHANGED <<packVars, imgVars, journalVars>>

\* lines 119-136: a rule line is a block of its own
HorizontalRule ==
    /\ Takes("hr")
    /\ blocks' = Append(FlushCurrent(blocks, current_block, current_type),
                        [content |-> lines[i], block_type |-> "hr",
                         char_count |-> StrLen(lines[i])])
    /\ current_block' = <<>>
    /\ current_type' = "paragraph"
    /\ i' = i + 1
    /\ UNCHANGED <<content, lines, in_code_block, in_table, pc>>
    /\ UNCHANGED <<packVars, imgVars, journalVars>>

\* lines 139-176: a heading takes the blank lines and the paragraph after it
Heading ==
    /\ Takes("heading")
    /\ \E heading_type \in {IF MatchStep(lines[i]) THEN "step" ELSE "heading"} :
       \E stop \in {SkipParagraph(lines, SkipBlank(lines, i + 1))} :
       \E heading_block \in {SubSeq(lines, i, stop - 1)} :
          /\ blocks' = Append(FlushCurrent(blocks, current_block, current_type),
                              MkBlock(heading_block, heading_type))
          /\ i' = stop
    /\ current_block' = <<>>
    /\ current_type' = "paragraph"
    /\ UNCHANGED <<content, lines, in_code_block, in_table, pc>>
    /\ UNCHANGED <<packVars, imgVars, journalVars>>

\* lines 179-224: a list item takes the whole list
ListItem ==
    /\ Takes("list")
    /\ \E stop \in {ListEnd(lines, i + 1)} :
       \E list_block \in {SubSeq(lines, i, stop - 1)} :
          /\ blocks' = Append(FlushCurrent(blocks, current_block, current_type),
                              MkBlock(list_block, "list"))
          /\ i' = stop
    /\ current_block' = <<>>
    /\ current_type' = "paragraph"
    /\ UNCHANGED <<content, lines, in_code_block, in_table, pc>>
    /\ UNCHANGED <<packVars, imgVars, journalVars>>

\* lines 227-234: a blank line joins the buffer
BlankLine ==
    /\ Takes("blank")
    /\ current_block' = Append(current_block, lines[i])
    /\ i' = i + 1
    /\ UNCHANGED <<content, lines, blocks, current_type, in_code_block, in_table, pc>>
    /\ UNCHANGED <<packVars, imgVars, journalVars>>

\* lines 237-238: regular paragraph content
Regular ==
    /\ Takes("text")
    /\ current_block' = Append(current_block, lines[i])
    /\ i' = i + 1
    /\ UNCHANGED <<content, lines, blocks, current_type, in_code_block, in_table, pc>>
    /\ UNCHANGED <<packVars, imgVars, journalVars>>

\* a last flush that keeps a buffer of whitespace and the buffer's own type
FinalBlocksUnchecked(bs, cb, ct, inCode) == FlushCurrent(bs, cb, ct)

\* the blocks parse_content_blocks returns: lines 241-250
FinalBlocks(bs, cb, ct, inCode) ==
    IF cb # <<>> /\ \E block_content \in {JoinNL(cb)} : Strip(block_content) # EmptyStr
    THEN Append(bs, MkBlock(cb, IF inCode THEN "code" ELSE ct))
    ELSE bs

\* lines 241-250, and process_file handing the blocks to split_into_pages
FlushRemaining ==
    /\ pc = "parse"
    /\ i > Len(lines)
    /\ blocks' = FinalBlocks(blocks, current_block, current_type, in_code_block)
    /\ pc' = "split"
    /\ pages' = <<>>
    /\ page_blocks' = <<>>
    /\ current_page' = <<>>
    /\ current_chars' = 0
    /\ k' = 1
    /\ UNCHANGED <<content, lines, i, current_block, current_type, in_code_block, in_table>>
    /\ UNCHANGED <<imgVars, journalVars>>

-----------------------------------------------------------------------------
(* Faulty variants of split_into_pages' steps, which the properties below  *)
(* must tell apart from the code                                            *)

\* the break decision without the rule for break points
should_break_ignoring_break_points(chars, block) ==
    IF chars = 0 THEN FALSE
    ELSE IF chars + block.char_count > MAX_CHARS /\ chars >= MIN_CHARS THEN TRUE
    ELSE FLt(TargetLimit, FFromInt(chars + block.char_count))

\* the break decision with the rule for break points alone
should_break_at_break_points_only(chars, block) ==
    chars # 0 /\ is_break_point(block) /\ chars >= MIN_CHARS

\* a break decision that never closes a page below MIN_CHARS
should_break_above_min(chars, block) ==
    /\ chars >= MIN_CHARS
    /\ \/ is_break_point(block)
       \/ chars + block.char_count > MAX_CHARS
       \/ FLt(TargetLimit, FFromInt(chars + block.char_count))

\* the break decision without the limit of 1.3 * TARGET_CHARS
should_break_without_target(chars, block) ==
    /\ chars # 0
    /\ chars >= MIN_CHARS
    /\ is_break_point(block) \/ chars + block.char_count > MAX_CHARS

\* oversized blocks are left out of the pages
AddBlockUnlessOversized(page, block, brk) ==
    IF block.char_count > MAX_CHARS THEN (IF brk THEN <<>> ELSE page)
    ELSE Append(IF brk THEN <<>> ELSE page, block)

\* a break that loses the block that caused it
AddBlockUnlessBreak(page, block, brk) == IF brk THEN <<>> ELSE Append(page, block)

-----------------------------------------------------------------------------
(* split_into_pages *)

\* lines 266-279: the decision to start a new page before this block
should_break(chars, block) ==
    IF chars = 0 THEN FALSE
    ELSE IF is_break_point(block) /\ chars >= MIN_CHARS THEN TRUE
    ELSE IF chars + block.char_count > MAX_CHARS /\ chars >= MIN_CHARS THEN TRUE
    ELSE FLt(TargetLimit, FFromInt(chars + block.char_count))

\* lines 283-284 and 294-295: the text of a page
PageText(bs) == Strip(JoinNL([j \in 1..Len(bs) |-> bs[j].content]))

\* lines 285 and 289: the page after the block is added
AddBlock(page, block, brk) == Append(IF brk THEN <<>> ELSE page, block)

\* lines 286 and 290
AddChars(chars, block, brk) == (IF brk THEN 0 ELSE chars) + block.char_count

\* lines 261-290: one iteration of the loop over the blocks
PackStep ==
    /\ pc = "split"
    /\ k <= Len(blocks)
    /\ LET block == blocks[k]
           brk == should_break(current_chars, block) /\ current_page # <<>>
       IN /\ pages' = IF brk THEN Append(pages, PageText(current_page)) ELSE pages
          /\ page_blocks' = IF brk THEN Append(page_blocks, current_page)
                            ELSE page_blocks
          /\ current_page' = AddBlock(current_page, block, brk)
          /\ current_chars' = AddChars(current_chars, block, brk)
    /\ k' = k + 1
    /\ UNCHANGED <<segVars, imgVars, journalVars, pc>>

\* lines 293-297: the last page
PackFinish ==
    /\ pc = "split"
    /\ k > Len(blocks)
    /\ pages' = IF current_page # <<>> THEN Append(pages, PageText(current_page))
                ELSE pages
    /\ page_blocks' = IF current_page # <<>> THEN Append(page_blocks, current_page)
                      ELSE page_blocks
    /\ pc' = "done"
    /\ UNCHANGED <<segVars, current_page, current_chars, k, imgVars, journalVars>>

-----------------------------------------------------------------------------
(* The texts and block lists explored *)

MaxLines == 4
MaxBlocks == 3

FenceLine == Str(Backtick, 3)
TableLine == <<Run("|", 1), Run("a", 1), Run("|", 1)>>
RuleLine == Str("-", 3)
LongHeading == <<Run("#", 1), Run("a", 3575)>>
BulletLine == <<Run("-", 1), Run(" ", 1), Run("a", 1)>>
LongText == Str("a", 2000)

LineSet == {EmptyStr, Str(" ", 1), FenceLine, TableLine, RuleLine, LongHeading,
            BulletLine, LongText}

BlockSizes == {0, 40, 1000, 2000, 2550, 3600}

BlockSet == {[content |-> IF n = 0 THEN EmptyStr ELSE Str("a", n),
              block_type |-> t, char_count |-> n] :
             n \in BlockSizes, t \in {"paragraph", "heading"}}

NoImage ==
    /\ img_width = 0
    /\ img_height = 0
    /\ scaled_width = FZero
    /\ scaled_height = FZero
    /\ can_fit = FALSE
    /\ total_pages = 0
    /\ scale_factor = FZero
    /\ remaining_height = FZero
    /\ crop_y_start = FZero
    /\ page_num = 0
    /\ canvas = <<>>
    /\ scale = FZero
    /\ num_pages = 0
    /\ crop_height_per_page = FZero
    /\ story = <<>>

NoPages ==
    /\ pages = <<>>
    /\ page_blocks = <<>>
    /\ current_page = <<>>
    /\ current_chars = 0
    /\ k = 1

NoText ==
    /\ content = EmptyStr
    /\ lines = <<>>
    /\ i = 1
    /\ current_block = <<>>
    /\ current_type = "paragraph"
    /\ in_code_block = FALSE
    /\ in_table = FALSE

\* process_file on a text of up to MaxLines lines: lines 40-47
InitSegment ==
    /\ \E n \in 1..MaxLines : \E ls \in [1..n -> LineSet] : content = JoinNL(ls)
    /\ lines = SplitNL(content)
    /\ i = 1
    /\ blocks = <<>>
    /\ current_block = <<>>
    /\ current_type = "paragraph"
    /\ in_code_block = FALSE
    /\ in_table = FALSE
    /\ NoPages
    /\ NoImage
    /\ pc = "parse"

\* split_into_pages on any list of up to MaxBlocks blocks: lines 257-259
InitPack ==
    /\ NoText
    /\ \E n \in 0..MaxBlocks : blocks \in [1..n -> BlockSet]
    /\ NoPages
    /\ NoImage
    /\ pc = "split"

NextSegment ==
    \/ CodeFence
    \/ CodeCollect
    \/ TableRow
    \/ TableEnd
    \/ HorizontalRule
    \/ Heading
    \/ ListItem
    \/ BlankLine
    \/ Regular
    \/ FlushRemaining
    \/ PackStep
    \/ PackFinish

NextPack ==
    \/ PackStep
    \/ PackFinish

SpecSegment == InitSegment /\ [][NextSegment]_vars

SpecPack == InitPack /\ [][NextPack]_vars

\* split_into_pages is a sequential loop: it takes its next step whenever
\* there is one
SpecPackFair == SpecPack /\ WF_vars(NextPack)

-----------------------------------------------------------------------------
(* parse_content_blocks alone, on texts of short lines of every kind *)

MaxShortLines == 4

\* "", "a", "#a", "- a", "  a", a fence, an indented fence, "|a|", "|a", "---"
ShortLines == {EmptyStr,
               Str("a", 1),
               <<Run("#", 1), Run("a", 1)>>,
               BulletLine,
               <<Run(" ", 2), Run("a", 1)>>,
               FenceLine,
               <<Run(" ", 2), Run(Backtick, 3)>>,
               TableLine,
               <<Run("|", 1), Run("a", 1)>>,
               RuleLine}

\* parse_content_blocks on a text of up to MaxShortLines lines: lines 40-47
InitShort ==
    /\ \E n \in 1..MaxShortLines : \E ls \in [1..n -> ShortLines] : content = JoinNL(ls)
    /\ lines = SplitNL(content)
    /\ i = 1
    /\ blocks = <<>>
    /\ current_block = <<>>
    /\ current_type = "paragraph"
    /\ in_code_block = FALSE
    /\ in_table = FALSE
    /\ NoPages
    /\ NoImage
    /\ pc = "parse"

NextParse ==
    \/ CodeFence
    \/ CodeCollect
    \/ TableRow
    \/ TableEnd
    \/ HorizontalRule
    \/ Heading
    \/ ListItem
    \/ BlankLine
    \/ Regular
    \/ FlushRemaining

SpecParse == InitShort /\ [][NextParse]_vars

MaxFairLines == 3

\* parse_content_blocks on a text of up to MaxFairLines short lines
InitFair ==
    /\ \E n \in 1..MaxFairLines : \E ls \in [1..n -> ShortLines] : content = JoinNL(ls)
    /\ lines = SplitNL(content)
    /\ i = 1
    /\ blocks = <<>>
    /\ current_block = <<>>
    /\ current_type = "paragraph"
    /\ in_code_block = FALSE
    /\ in_table = FALSE
    /\ NoPages
    /\ NoImage
    /\ pc = "parse"

\* the function runs on: a step that can be taken is taken
SpecParseFair == InitFair /\ [][NextParse]_vars /\ WF_vars(NextParse)

-----------------------------------------------------------------------------
(* Properties of parse_content_blocks and split_into_pages *)

BlockContents(bs) == [j \in 1..Len(bs) |-> bs[j].content]

RECURSIVE Flatten(_)
Flatten(ps) == IF ps = <<>> THEN <<>> ELSE ps[1] \o Flatten(Tail(ps))

RECURSIVE PageChars(_)
PageChars(bs) == IF bs = <<>> THEN 0 ELSE bs[1].char_count + PageChars(Tail(bs))

Parsed == pc \in {"split", "done"}

\* C1: once parse_content_blocks has returned, joining the blocks' contents
\* with "\n" gives back the input text exactly.
C1_Lossless == Parsed => JoinNL(BlockContents(blocks)) = content

\* the block C1's text does not account for: a table block without a row
C1_EmptyTableBlock ==
    /\ Parsed
    /\ \E j \in 1..Len(blocks) :
          blocks[j].block_type = "table" /\ blocks[j].content = EmptyStr

\* C2: the blocks of the pages, read page by page, are the blocks taken so
\* far, in order and once each; when split_into_pages returns they are the
\* whole block list, and every returned page text is the text of its blocks.
C2_Exhaustive ==
    /\ pc = "split" => Flatten(page_blocks) \o current_page = SubSeq(blocks, 1, k - 1)
    /\ pc = "done" => Flatten(page_blocks) = blocks
    /\ Len(pages) = Len(page_blocks)
    /\ \A j \in 1..Len(pages) : pages[j] = PageText(page_blocks[j])

C2_Witness ==
    /\ pc = "done"
    /\ Len(blocks) = 3
    /\ Len(page_blocks) = 2
    /\ Len(page_blocks[1]) = 2

\* C3: every page has at most MAX_CHARS characters in total, except a page
\* of a single block that is itself longer than MAX_CHARS.
C3_HardCeiling ==
    \A j \in 1..Len(page_blocks) :
        \/ PageChars(page_blocks[j]) <= MAX_CHARS
        \/ Len(page_blocks[j]) = 1 /\ page_blocks[j][1].char_count > MAX_CHARS

\* C4: when the loop reaches a break point that is not the first block while
\* current_chars >= MIN_CHARS, the step closes the page being built and the
\* break point becomes the first block of the next page.
C4_BreakPreferred ==
    [][(/\ pc = "split"
        /\ k > 1
        /\ k <= Len(blocks)
        /\ is_break_point(blocks[k])
        /\ current_chars >= MIN_CHARS)
       => (/\ page_blocks' = Append(page_blocks, current_page)
           /\ pages' = Append(pages, PageText(current_page))
           /\ current_page' = <<blocks[k]>>)]_vars

C4_Witness ==
    /\ pc = "split"
    /\ k > 2
    /\ current_page = <<blocks[k - 1]>>
    /\ is_break_point(blocks[k - 1])
    /\ page_blocks # <<>>
    /\ PageChars(page_blocks[Len(page_blocks)]) >= MIN_CHARS
    /\ PageChars(page_blocks[Len(page_blocks)]) + blocks[k - 1].char_count <= MAX_CHARS

\* C10: of the pages returned for a parsed text, every page but the last
\* holds at least one block and has a non-empty text.
C10_NoEmptyPage ==
    pc = "done" =>
        \A j \in 1..(Len(pages) - 1) :
            page_blocks[j] # <<>> /\ pages[j] # EmptyStr

-----------------------------------------------------------------------------
(* images-to-pdf.py *)

\* reportlab.lib.units.inch and reportlab.lib.pagesizes.LETTER, in points
inch == 72
PAGE_WIDTH == 612
PAGE_HEIGHT == 792

Literal05 == FDiv(FFromInt(1), FFromInt(2))
Literal08 == FDiv(FFromInt(4), FFromInt(5))
Literal125 == FDiv(FFromInt(5), FFromInt(4))

MARGIN == FMulInt(inch, Literal05)
USABLE_WIDTH == FSub(FFromInt(PAGE_WIDTH), FMulInt(2, MARGIN))
USABLE_HEIGHT == FSub(FFromInt(PAGE_HEIGHT), FMulInt(2, MARGIN))

\* lines 63-65 (max_height is None at both call sites)
calculate_scaled_dimensions(w, h, max_width) ==
    <<max_width, FMulInt(h, FDiv(max_width, FFromInt(w)))>>

\* lines 92-94: the shrink the page height asks for is within shrink_factor
ShrinkAcceptable(sh, shrink_factor) == FLe(shrink_factor, FDiv(USABLE_HEIGHT, sh))

\* a fit that accepts every image at its width-fit size
can_fit_unchecked(w, h, shrink_factor) ==
    <<TRUE, USABLE_WIDTH, calculate_scaled_dimensions(w, h, USABLE_WIDTH)[2]>>

\* a fit that keeps the width-fit size when the image is to be shrunk
can_fit_without_shrinking(w, h, shrink_factor) ==
    LET dims == calculate_scaled_dimensions(w, h, USABLE_WIDTH)
    IN <<FLe(dims[2], USABLE_HEIGHT) \/ ShrinkAcceptable(dims[2], shrink_factor),
         dims[1], dims[2]>>

\* lines 82-100: <<can_fit, scaled_width, scaled_height>>
can_fit_with_shrink(w, h, shrink_factor) ==
    LET dims == calculate_scaled_dimensions(w, h, USABLE_WIDTH)
    IN IF FLe(dims[2], USABLE_HEIGHT) THEN <<TRUE, dims[1], dims[2]>>
       ELSE IF ShrinkAcceptable(dims[2], shrink_factor)
            THEN <<TRUE, FMul(dims[1], FDiv(USABLE_HEIGHT, dims[2])), USABLE_HEIGHT>>
            ELSE <<FALSE, dims[1], dims[2]>>

\* lines 138 and 186: x = MARGIN + (USABLE_WIDTH - scaled_width) / 2
CenterX(sw) == FAdd(MARGIN, FDiv(FSub(USABLE_WIDTH, sw), FFromInt(2)))

\* lines 139 and 188: y = PAGE_HEIGHT - MARGIN - height
TopY(ht) == FSub(FSub(FFromInt(PAGE_HEIGHT), MARGIN), ht)

\* a page count that leaves the last, shorter page out
PagesNeededFloor(sh, uh) == FInt(FFloorDiv(sh, uh))

\* line 158: total_pages
PagesNeeded(sh, uh) == FInt(FFloorDiv(FSub(FAdd(sh, uh), FFromInt(1)), uh))

\* line 171
ThisPageHeight(rem) == FMin(rem, USABLE_HEIGHT)

\* lines 174-175: crop_y_end
CropEnd(cs, tph, sf, h) == FMin(FAdd(cs, FDiv(tph, sf)), FFromInt(h))

\* lines 136-148: the image goes on one page (line 63 divides by img_width)
PlaceWhole ==
    /\ pc = "open"
    /\ img_width # 0
    /\ LET fit == can_fit_with_shrink(img_width, img_height, Literal08)
       IN /\ fit[1]
          /\ can_fit' = TRUE
          /\ scaled_width' = fit[2]
          /\ scaled_height' = fit[3]
          /\ canvas' = Append(canvas, [crop |-> <<0, img_height>>,
                                       x |-> CenterX(fit[2]), y |-> TopY(fit[3]),
                                       width |-> fit[2], height |-> fit[3],
                                       indicator |-> <<>>])
    /\ pc' = "done"
    /\ UNCHANGED <<img_width, img_height, total_pages, scale_factor,
                   remaining_height, crop_y_start, page_num>>
    /\ UNCHANGED <<segVars, packVars, journalVars>>

\* lines 150-167: the image is to span several pages
BeginSplit ==
    /\ pc = "open"
    /\ img_width # 0
    /\ ~can_fit_with_shrink(img_width, img_height, Literal08)[1]
    /\ can_fit' = FALSE
    /\ LET dims == calculate_scaled_dimensions(img_width, img_height, USABLE_WIDTH)
       IN /\ scaled_width' = dims[1]
          /\ scaled_height' = dims[2]
          /\ total_pages' = PagesNeeded(dims[2], USABLE_HEIGHT)
          /\ scale_factor' = FDiv(dims[1], FFromInt(img_width))
          /\ remaining_height' = dims[2]
    /\ crop_y_start' = FZero
    /\ page_num' = 0
    /\ pc' = "slice"
    /\ UNCHANGED <<img_width, img_height, canvas>>
    /\ UNCHANGED <<segVars, packVars, journalVars>>

\* lines 168-203: one turn of the loop, the crop saved and drawn
DrawSlice ==
    /\ pc = "slice"
    /\ FLt(FZero, remaining_height)
    /\ LET this_page_height == ThisPageHeight(remaining_height)
           crop_y_end == CropEnd(crop_y_start, this_page_height, scale_factor,
                                 img_height)
           actual_height == FMul(FSub(crop_y_end, crop_y_start), scale_factor)
       IN /\ canvas' = Append(canvas,
                 [crop |-> <<FInt(crop_y_start), FInt(crop_y_end)>>,
                  x |-> CenterX(scaled_width), y |-> TopY(actual_height),
                  width |-> scaled_width, height |-> actual_height,
                  indicator |-> IF total_pages > 1
                                THEN <<page_num + 1, total_pages>> ELSE <<>>])
          /\ crop_y_start' = crop_y_end
          /\ remaining_height' = FSub(remaining_height, this_page_height)
    /\ page_num' = page_num + 1
    /\ UNCHANGED <<img_width, img_height, scaled_width, scaled_height, can_fit,
                   total_pages, scale_factor, pc>>
    /\ UNCHANGED <<segVars, packVars, journalVars>>

\* lines 178-182 and 207-209: a crop without a pixel row cannot be saved as
\* PNG by every Pillow release; the exception ends the work on this image
CropFails ==
    /\ pc = "slice"
    /\ FLt(FZero, remaining_height)
    /\ LET crop_y_end == CropEnd(crop_y_start, ThisPageHeight(remaining_height),
                                 scale_factor, img_height)
       IN FInt(crop_y_start) = FInt(crop_y_end)
    /\ page_num' = page_num + 1
    /\ pc' = "error"
    /\ UNCHANGED <<img_width, img_height, scaled_width, scaled_height, can_fit,
                   total_pages, scale_factor, remaining_height, crop_y_start, canvas>>
    /\ UNCHANGED <<segVars, packVars, journalVars>>

\* lines 168 and 205: the loop ends
EndSplit ==
    /\ pc = "slice"
    /\ ~FLt(FZero, remaining_height)
    /\ pc' = "done"
    /\ UNCHANGED <<segVars, packVars, imgVars, journalVars>>

-----------------------------------------------------------------------------
(* journal-to-pdf.py: a screenshot of an entry *)

\* line 359: available_height (room is left for the caption)
AvailableHeight == FSub(USABLE_HEIGHT, FFromInt(inch))

\* line 369: the screenshot is placed at up to 20% shrink
FitsAvailable(sh) == FLe(sh, FMul(AvailableHeight, Literal125))

\* line 386: the screenshot is much taller than the page
VeryTall(sh) == FLt(FMulInt(2, AvailableHeight), sh)

\* an RLImage flowable and its caption
Picture(crop, wd, ht, note) ==
    <<[kind |-> "image", crop |-> crop, width |-> wd, height |-> ht],
      [kind |-> "caption", note |-> note]>>

\* lines 365-377: the screenshot fits on the page
PlaceScreenshot ==
    /\ pc = "screenshot"
    /\ LET sc == FDiv(USABLE_WIDTH, FFromInt(img_width))
           sh == FMulInt(img_height, sc)
           final_scale == FMin(sc, FDiv(AvailableHeight, FFromInt(img_height)))
       IN /\ FitsAvailable(sh)
          /\ scale' = sc
          /\ scaled_height' = sh
          /\ story' = story \o Picture(<<0, img_height>>,
                                       FMulInt(img_width, final_scale),
                                       FMulInt(img_height, final_scale), "")
    /\ pc' = "done"
    /\ UNCHANGED <<img_width, img_height, scaled_width, can_fit, total_pages,
                   scale_factor, remaining_height, crop_y_start, page_num, canvas,
                   num_pages, crop_height_per_page>>
    /\ UNCHANGED <<segVars, packVars>>

\* lines 378-386 and 390-393: too tall, yet placed whole at available_height
PlaceReduced ==
    /\ pc = "screenshot"
    /\ LET sc == FDiv(USABLE_WIDTH, FFromInt(img_width))
           sh == FMulInt(img_height, sc)
           final_scale == FDiv(AvailableHeight, FFromInt(img_height))
       IN /\ ~FitsAvailable(sh)
          /\ ~VeryTall(sh)
          /\ scale' = sc
          /\ scaled_height' = sh
          /\ story' = story \o Picture(<<0, img_height>>,
                                       FMulInt(img_width, final_scale),
                                       AvailableHeight, "scaled to fit")
    /\ pc' = "done"
    /\ UNCHANGED <<img_width, img_height, scaled_width, can_fit, total_pages,
                   scale_factor, remaining_height, crop_y_start, page_num, canvas,
                   num_pages, crop_height_per_page>>
    /\ UNCHANGED <<segVars, packVars>>

\* lines 378-389 and add_split_image up to its loop, lines 424-430
BeginSplitImage ==
    /\ pc = "screenshot"
    /\ LET sc == FDiv(USABLE_WIDTH, FFromInt(img_width))
           sh == FMulInt(img_height, sc)
       IN /\ ~FitsAvailable(sh)
          /\ VeryTall(sh)
          /\ scale' = sc
          /\ scaled_height' = sh
          /\ num_pages' = PagesNeeded(sh, USABLE_HEIGHT)
          /\ crop_height_per_page' = FDiv(USABLE_HEIGHT, sc)
    /\ story' = Append(story, [kind |-> "PageBreak"])
    /\ page_num' = 0
    /\ pc' = "slices"
    /\ UNCHANGED <<img_width, img_height, scaled_width, can_fit, total_pages,
                   scale_factor, remaining_height, crop_y_start, canvas>>
    /\ UNCHANGED <<segVars, packVars>>

\* line 433
SliceStart(p, chpp) == FInt(FMulInt(p, chpp))

\* line 434
SliceEnd(p, chpp, h) ==
    IF FInt(FMulInt(p + 1, chpp)) < h THEN FInt(FMulInt(p + 1, chpp)) ELSE h

\* lines 432-451: one turn of add_split_image's loop
AddSlice ==
    /\ pc = "slices"
    /\ page_num < num_pages
    /\ LET top == SliceStart(page_num, crop_height_per_page)
           bottom == SliceEnd(page_num, crop_height_per_page, img_height)
       IN story' = story
                   \o Picture(<<top, bottom>>, USABLE_WIDTH,
                              FMulInt(bottom - top, scale),
                              <<page_num + 1, num_pages>>)
                   \o (IF page_num < num_pages - 1
                       THEN <<[kind |-> "PageBreak"]>> ELSE <<>>)
    /\ page_num' = page_num + 1
    /\ UNCHANGED <<img_width, img_height, scaled_width, scaled_height, can_fit,
                   total_pages, scale_factor, remaining_height, crop_y_start, canvas,
                   scale, num_pages, crop_height_per_page, pc>>
    /\ UNCHANGED <<segVars, packVars>>

\* line 432: range(num_pages) is used up
EndSplitImage ==
    /\ pc = "slices"
    /\ page_num >= num_pages
    /\ pc' = "done"
    /\ UNCHANGED <<segVars, packVars, imgVars, journalVars>>

-----------------------------------------------------------------------------
(* The images explored: every size up to MaxW x MaxH, and some larger ones *)

MaxW == 4
MaxH == 10

LargeImages == {<<105, 175>>, <<181, 483>>, <<540, 900>>, <<540, 901>>,
                <<540, 1000>>, <<800, 600>>, <<1080, 2881>>, <<3000, 9000>>}

ImageSizes == ((1..MaxW) \X (1..MaxH)) \cup LargeImages

ImageOpened ==
    /\ \E size \in ImageSizes : img_width = size[1] /\ img_height = size[2]
    /\ scaled_width = FZero
    /\ scaled_height = FZero
    /\ can_fit = FALSE
    /\ total_pages = 0
    /\ scale_factor = FZero
    /\ remaining_height = FZero
    /\ crop_y_start = FZero
    /\ page_num = 0
    /\ canvas = <<>>
    /\ scale = FZero
    /\ num_pages = 0
    /\ crop_height_per_page = FZero
    /\ story = <<>>

\* images-to-pdf.py line 131
InitImages ==
    /\ NoText
    /\ blocks = <<>>
    /\ NoPages
    /\ ImageOpened
    /\ pc = "open"

\* journal-to-pdf.py line 362
InitJournal ==
    /\ NoText
    /\ blocks = <<>>
    /\ NoPages
    /\ ImageOpened
    /\ pc = "screenshot"

NextImages ==
    \/ PlaceWhole
    \/ BeginSplit
    \/ DrawSlice
    \/ CropFails
    \/ EndSplit

NextJournal ==
    \/ PlaceScreenshot
    \/ PlaceReduced
    \/ BeginSplitImage
    \/ AddSlice
    \/ EndSplitImage

SpecImages == InitImages /\ [][NextImages]_vars

SpecJournal == InitJournal /\ [][NextJournal]_vars

-----------------------------------------------------------------------------
(* images-to-pdf.py on images without columns or without rows *)

\* lines 207-209: an exception before the first page of the image is drawn
\* ends the work on it.  With no columns, line 63 divides by zero inside
\* can_fit_with_shrink; with no rows, can_fit_with_shrink returns at line 88
\* and saving the image as PNG (line 143) fails in the Pillow releases that
\* refuse an image without pixels.
ImageFails ==
    /\ pc = "open"
    /\ \/ /\ img_width = 0
          /\ UNCHANGED <<can_fit, scaled_width, scaled_height>>
       \/ /\ img_width # 0
          /\ img_height = 0
          /\ LET fit == can_fit_with_shrink(img_width, img_height, Literal08)
             IN /\ can_fit' = fit[1]
                /\ scaled_width' = fit[2]
                /\ scaled_height' = fit[3]
    /\ pc' = "error"
    /\ UNCHANGED <<img_width, img_height, total_pages, scale_factor,
                   remaining_height, crop_y_start, page_num, canvas>>
    /\ UNCHANGED <<segVars, packVars, journalVars>>

\* line 131 with img.size of any width and height from 0, and the larger ones
InitDegenerate ==
    /\ NoText
    /\ blocks = <<>>
    /\ NoPages
    /\ \E size \in ((0..MaxW) \X (0..MaxH)) \cup LargeImages :
          img_width = size[1] /\ img_height = size[2]
    /\ scaled_width = FZero
    /\ scaled_height = FZero
    /\ can_fit = FALSE
    /\ total_pages = 0
    /\ scale_factor = FZero
    /\ remaining_height = FZero
    /\ crop_y_start = FZero
    /\ page_num = 0
    /\ canvas = <<>>
    /\ scale = FZero
    /\ num_pages = 0
    /\ crop_height_per_page = FZero
    /\ story = <<>>
    /\ pc = "open"

NextDegenerate ==
    \/ PlaceWhole
    \/ BeginSplit
    \/ DrawSlice
    \/ CropFails
    \/ EndSplit
    \/ ImageFails

SpecDegenerate == InitDegenerate /\ [][NextDegenerate]_vars

-----------------------------------------------------------------------------
(* Properties of the image tools *)

\* the usable page area in points, as integers
UsableW == PAGE_WIDTH - inch
UsableH == PAGE_HEIGHT - inch

\* f >= num / den exactly, for ints num >= 0 and 0 < den < 2^16
AtLeast(f, num, den) ==
    IF f.e >= 0 THEN BCmp(BMulSmall(BShl(f.m, f.e), den), BFromInt(num)) >= 0
    ELSE BCmp(BMulSmall(f.m, den), BShl(BFromInt(num), 0 - f.e)) >= 0

\* the crop ranges, in source rows, of the pages images-to-pdf has drawn
Crops == [j \in 1..Len(canvas) |-> canvas[j].crop]

\* the crop ranges of the slices add_split_image has appended
StoryImages == SelectSeq(story, LAMBDA fl : fl.kind = "image")
StoryCrops == [j \in 1..Len(StoryImages) |-> StoryImages[j].crop]

\* crop ranges that start at row 0, each starting where the one before ended,
\* none ending beyond row h
Contiguous(cs, h) ==
    /\ cs # <<>> => cs[1][1] = 0
    /\ \A j \in 1..(Len(cs) - 1) : cs[j][2] = cs[j + 1][1]
    /\ \A j \in 1..Len(cs) : cs[j][2] <= h

\* C5: the slices of an image that can_fit_with_shrink rejects start at
\* row 0, are contiguous, never end beyond H, and the last one ends at H.
C5_SlicesCoverImage ==
    /\ pc = "slice" => Contiguous(Crops, img_height)
    /\ (pc = "done" /\ ~can_fit) =>
          /\ Contiguous(Crops, img_height)
          /\ Crops # <<>>
          /\ Crops[Len(Crops)][2] = img_height

\* C6: the slices add_split_image appends start at row 0, are contiguous,
\* and the last one ends at the image height.
C6_JournalSlicesCoverImage ==
    /\ pc = "slices" => Contiguous(StoryCrops, img_height)
    /\ (pc = "done" /\ num_pages > 0) =>
          /\ Contiguous(StoryCrops, img_height)
          /\ StoryCrops # <<>>
          /\ StoryCrops[Len(StoryCrops)][2] = img_height

\* C7: once the image is classified, can_fit holds exactly when its width-fit
\* height H * USABLE_WIDTH / W, times 0.8, is at most USABLE_HEIGHT.
C7_ShrinkFloor ==
    pc \in {"slice", "done", "error"} =>
        (can_fit <=> img_height * UsableW * 4 <= UsableH * 5 * img_width)

\* C8: a screenshot placed whole has a height of at least 0.8 times its
\* width-fit height H * USABLE_WIDTH / W; any other screenshot is split.
C8_ShrinkAtMostFifth ==
    \A j \in 1..Len(story) :
        (story[j].kind = "image" /\ num_pages = 0) =>
            AtLeast(story[j].height, 4 * UsableW * img_height, 5 * img_width)

\* ceil(a / b)
CeilDiv(a, b) == (a + b - 1) \div b

\* C9: when the splitting loop has ended, the number of slices is
\* ceil(scaledH / USABLE_HEIGHT) and is total_pages, so that slice number n
\* carries the indicator (n/total_pages).
C9_SliceCount ==
    (pc = "done" /\ ~can_fit) =>
        /\ Len(canvas) = CeilDiv(img_height * UsableW, img_width * UsableH)
        /\ Len(canvas) = total_pages
        /\ \A j \in 1..Len(canvas) :
              total_pages > 1 => canvas[j].indicator = <<j, total_pages>>

-----------------------------------------------------------------------------
(* More properties of parse_content_blocks and split_into_pages *)

\* C11: split_into_pages returns for every block list (no step of it can
\* fail, so it reaches its return), and for a list of one block longer than
\* MAX_CHARS it returns exactly one page, which holds that block.
C11_Total ==
    /\ <>(pc = "done")
    /\ [](pc = "split" => k \in 1..(Len(blocks) + 1))
    /\ []((pc = "done" /\ Len(blocks) = 1 /\ blocks[1].char_count > MAX_CHARS)
          => (page_blocks = <<blocks>> /\ Len(pages) = 1))

C11_Witness ==
    /\ pc = "done"
    /\ Len(blocks) = 1
    /\ blocks[1].char_count > MAX_CHARS
    /\ Len(pages) = 1

\* the lines of a block
BlockLines(b) == SplitNL(b.content)

\* line a of the text is a fence line that opens a code block: the fence
\* lines before it pair up
OpensFence(a) ==
    /\ IsFence(lines[a])
    /\ Cardinality({j \in 1..(a - 1) : IsFence(lines[j])}) % 2 = 0

\* the fence line that closes the code block opened at line a, or the last
\* line of the text when none does
ClosingLine(a) ==
    IF \E j \in (a + 1)..Len(lines) : IsFence(lines[j])
    THEN CHOOSE j \in (a + 1)..Len(lines) :
            IsFence(lines[j]) /\ \A m \in (a + 1)..(j - 1) : ~IsFence(lines[m])
    ELSE Len(lines)

\* C12: once the text is parsed, every opening fence line, the lines up to
\* the next fence line and that fence line are the content of one block of
\* type code, and no block of another type holds a fence line.
C12_FencedCode ==
    Parsed =>
        /\ \A a \in 1..Len(lines) :
              OpensFence(a) =>
                  \E j \in 1..Len(blocks) :
                      /\ blocks[j].block_type = "code"
                      /\ blocks[j].content = JoinNL(SubSeq(lines, a, ClosingLine(a)))
        /\ \A j \in 1..Len(blocks) :
              blocks[j].block_type # "code" =>
                  \A m \in 1..Len(BlockLines(blocks[j])) :
                      ~IsFence(BlockLines(blocks[j])[m])

\* line a of the text lies outside every code fence: it is no fence line and
\* the fence lines before it pair up
OutsideFence(a) ==
    /\ ~IsFence(lines[a])
    /\ Cardinality({j \in 1..(a - 1) : IsFence(lines[j])}) % 2 = 0

ExactRule(line) == line \in {Str("-", 3), Str("*", 3), Str("_", 3)}

\* C13: once the text is parsed, there is one block of type hr for every rule
\* line outside a code fence, each holding that line alone, and no block of
\* another type has a rule line, except a code block.
C13_RuleAlone ==
    Parsed =>
        /\ Cardinality({j \in 1..Len(blocks) : blocks[j].block_type = "hr"})
             = Cardinality({a \in 1..Len(lines) : OutsideFence(a) /\ ExactRule(lines[a])})
        /\ \A j \in 1..Len(blocks) :
              /\ blocks[j].block_type = "hr" => ExactRule(blocks[j].content)
              /\ blocks[j].block_type \notin {"hr", "code"} =>
                    \A m \in 1..Len(BlockLines(blocks[j])) :
                        ~ExactRule(BlockLines(blocks[j])[m])

\* the number of table delimiters in a line
Delimiters(line) ==
    LET RECURSIVE count(_)
        count(a) == IF a > Len(line) THEN 0
                    ELSE (IF line[a][1] = "|" THEN line[a][2] ELSE 0) + count(a + 1)
    IN count(1)

\* a line that begins with the table delimiter and has a further one
DelimitedRow(line) == IsTableLine(line) /\ Delimiters(line) >= 2

\* C14: once the text is parsed, every line of a block of type table begins
\* with the table delimiter and has a further delimiter, so a line that begins
\* with the delimiter and has no other is in no table block, and two table
\* blocks are never adjacent (a run of rows is one block).
C14_TableRows ==
    Parsed =>
        /\ \A j \in 1..Len(blocks) :
              blocks[j].block_type = "table" =>
                  \A m \in 1..Len(BlockLines(blocks[j])) :
                      DelimitedRow(BlockLines(blocks[j])[m])
        /\ \A j \in 1..(Len(blocks) - 1) :
              ~(blocks[j].block_type = "table" /\ blocks[j + 1].block_type = "table")

\* the last of the blank lines that follow line a
BlankRunEnd(a) ==
    CHOOSE b \in a..Len(lines) :
        /\ \A m \in (a + 1)..b : IsBlank(lines[m])
        /\ b = Len(lines) \/ ~IsBlank(lines[b + 1])

\* a line of a heading's opening paragraph: not blank, no heading, no fence
\* and no table row
OpeningLine(line) ==
    ~IsBlank(line) /\ ~IsHeadingLine(line) /\ ~IsFence(line) /\ ~IsTableLine(line)

\* the last line of the run of paragraph lines that follows line b
OpeningEnd(b) ==
    CHOOSE e \in b..Len(lines) :
        /\ \A m \in (b + 1)..e : OpeningLine(lines[m])
        /\ e = Len(lines) \/ ~OpeningLine(lines[e + 1])

\* the heading at line a, the blank lines after it and its opening paragraph
HeadingSpan(a) == SubSeq(lines, a, OpeningEnd(BlankRunEnd(a)))

\* the block holds the lines ls, one after the other
Holds(b, ls) ==
    \E s \in 0..(Len(BlockLines(b)) - Len(ls)) :
        SubSeq(BlockLines(b), s + 1, s + Len(ls)) = ls

HeadingOutsideFence(a) == IsHeadingLine(lines[a]) /\ OutsideFence(a)

\* C15: once the text is parsed, every heading line outside a code fence is
\* in one block together with the blank lines that follow it and the run of
\* non-blank lines after them, up to the next blank line, heading, fence or
\* table row; once the pages are made, that block is a block of one page, so
\* no page break falls between the heading and its opening paragraph.
C15_HeadingKeepsParagraph ==
    /\ Parsed =>
          \A a \in 1..Len(lines) :
              HeadingOutsideFence(a) =>
                  \E j \in 1..Len(blocks) : Holds(blocks[j], HeadingSpan(a))
    /\ pc = "done" =>
          \A a \in 1..Len(lines) :
              HeadingOutsideFence(a) =>
                  \E p \in 1..Len(page_blocks) : \E q \in 1..Len(page_blocks[p]) :
                      Holds(page_blocks[p][q], HeadingSpan(a))

\* a heading with a blank line and a paragraph after it, in a text of two
\* pages or more
C15_Witness ==
    /\ pc = "done"
    /\ Len(pages) >= 2
    /\ \E a \in 1..Len(lines) :
          /\ HeadingOutsideFence(a)
          /\ BlankRunEnd(a) > a
          /\ OpeningEnd(BlankRunEnd(a)) > BlankRunEnd(a)

\* the next non-blank line after line m is a list item
ItemFollows(m) ==
    \E n \in (m + 1)..Len(lines) :
        /\ IsListItem(lines[n])
        /\ \A q \in (m + 1)..(n - 1) : IsBlank(lines[q])

\* C16: the step that collects a list appends one block of type list with the
\* lines it passes, and a blank line that the collection reaches is passed
\* (absorbed into the list) if and only if the next non-blank line is a list
\* item; otherwise the collection stops at that blank line, which is the next
\* line the scanning loop takes.
C16_ListBlankLines ==
    [][Takes("list") =>
          /\ blocks'[Len(blocks')] = MkBlock(SubSeq(lines, i, i' - 1), "list")
          /\ pc' = "parse"
          /\ \A m \in (i + 1)..Len(lines) :
                (IsBlank(lines[m]) /\ m <= i') => (m < i' <=> ItemFollows(m))]_vars

\* a list that absorbed a blank line and stopped before another
C16_Witness ==
    /\ pc = "parse"
    /\ current_block = <<>>
    /\ i <= Len(lines)
    /\ IsBlank(lines[i])
    /\ blocks # <<>>
    /\ blocks[Len(blocks)].block_type = "list"
    /\ \E m \in 1..Len(BlockLines(blocks[Len(blocks)])) :
          IsBlank(BlockLines(blocks[Len(blocks)])[m])

\* the buffer has a character that is not whitespace
HasText(cb) == \E m \in 1..Len(cb) : ~IsBlank(cb[m])

\* C17: the step at the end of the text appends the remaining buffer as one
\* last block if and only if the buffer has a non-whitespace character; the
\* block has type code when a code fence is still open, and the type of the
\* buffer otherwise; a buffer of whitespace alone adds no block.
C17_FinalFlush ==
    [][(pc = "parse" /\ i > Len(lines)) =>
          IF HasText(current_block)
          THEN blocks' = Append(blocks,
                                [content |-> JoinNL(current_block),
                                 block_type |-> IF in_code_block THEN "code"
                                                ELSE current_type,
                                 char_count |-> StrLen(JoinNL(current_block))])
          ELSE blocks' = blocks]_vars

\* the text ended inside a code fence and the buffer became a code block
C17_Witness ==
    /\ pc = "split"
    /\ in_code_block
    /\ Len(current_block) >= 2
    /\ blocks # <<>>
    /\ blocks[Len(blocks)].block_type = "code"
    /\ blocks[Len(blocks)].content = JoinNL(current_block)

-----------------------------------------------------------------------------
(* More properties of the image tools *)

\* f * a = g * b exactly, for floats f, g and ints 0 < a, b < 2^16
SameProduct(f, a, g, b) ==
    LET low == IF f.e < g.e THEN f.e ELSE g.e
    IN BCmp(BShl(BMulSmall(f.m, a), f.e - low),
            BShl(BMulSmall(g.m, b), g.e - low)) = 0

\* the image has been classified and its placement size is known
Classified == pc \in {"slice", "done", "error"}

\* C18: the width and height that can_fit_with_shrink returns for an image
\* of W x H keep its aspect ratio: width * H = height * W, whether the image
\* fits unshrunk, fits with shrink or needs splitting.
C18_AspectRatio ==
    Classified => SameProduct(scaled_width, img_height, scaled_height, img_width)

\* floats of the same value
SameValue(f, g) == SameProduct(f, 1, g, 1)

\* the height of the image scaled to the usable width: H * (USABLE_WIDTH / W)
WidthFitHeight == FMulInt(img_height, FDiv(FFromInt(UsableW), FFromInt(img_width)))

\* USABLE_HEIGHT / scaledH
RequiredScale == FDiv(FFromInt(UsableH), WidthFitHeight)

\* C19: an image whose width-fit height is at most USABLE_HEIGHT is placed
\* with the width-fit size (USABLE_WIDTH, H * USABLE_WIDTH / W) unchanged, and
\* an image to be split keeps that size too; only an image that fits with
\* shrink gets the width times requiredScale and the height USABLE_HEIGHT.
C19_ReturnedSize ==
    Classified =>
        IF FLe(WidthFitHeight, FFromInt(UsableH))
        THEN /\ can_fit
             /\ SameValue(scaled_width, FFromInt(UsableW))
             /\ SameValue(scaled_height, WidthFitHeight)
        ELSE IF can_fit
        THEN /\ SameValue(scaled_width, FMul(FFromInt(UsableW), RequiredScale))
             /\ SameValue(scaled_height, FFromInt(UsableH))
        ELSE /\ SameValue(scaled_width, FFromInt(UsableW))
             /\ SameValue(scaled_height, WidthFitHeight)

\* an image placed on one page after a shrink
C19_Witness ==
    /\ pc = "done"
    /\ can_fit
    /\ FLt(FFromInt(UsableH), WidthFitHeight)
    /\ FLt(scaled_width, FFromInt(UsableW))

\* an image without columns or without rows
Degenerate == img_width = 0 \/ img_height = 0

\* C20: the work on an image with W = 0 or H = 0 ends in an error and never
\* in a placement: can_fit_with_shrink does not return can_fit = TRUE with a
\* width or a height of zero, and no page is drawn.
C20_DegenerateRejected ==
    (Degenerate /\ pc # "open") =>
        /\ pc = "error"
        /\ ~(can_fit /\ (scaled_width.m = <<>> \/ scaled_height.m = <<>>))
        /\ canvas = <<>>

-----------------------------------------------------------------------------
(* Further properties of split_into_pages *)

\* a heading of 40 characters and two paragraphs of 2000
ExampleHeading == [content |-> Str("a", 40), block_type |-> "heading", char_count |-> 40]
ExampleParagraph == [content |-> Str("a", 2000), block_type |-> "paragraph",
                     char_count |-> 2000]
ExampleBlocks == <<ExampleHeading, ExampleParagraph, ExampleParagraph>>

\* C21: for the list of a heading of 40 characters and two paragraphs of 2000
\* characters, split_into_pages returns exactly two pages: the first holds
\* the heading and the first paragraph, the second the second paragraph.
C21_ExamplePages ==
    (pc = "done" /\ blocks = ExampleBlocks) =>
        /\ page_blocks = <<<<ExampleHeading, ExampleParagraph>>, <<ExampleParagraph>>>>
        /\ pages = <<JoinNL(<<Str("a", 40), Str("a", 2000)>>), Str("a", 2000)>>

\* split_into_pages has returned for the example list
C21_Witness == pc = "done" /\ blocks = ExampleBlocks /\ Len(pages) = 2

\* the conditions under which the claim has the page closed before block b
ClosesBefore(chars, b) ==
    /\ chars > 0
    /\ \/ is_break_point(b) /\ chars >= MIN_CHARS
       \/ chars + b.char_count > MAX_CHARS /\ chars >= MIN_CHARS
       \/ 10 * (chars + b.char_count) > 13 * TARGET_CHARS

NoEmptyBlock == \A j \in 1..Len(blocks) : blocks[j].char_count >= 1

\* C24: when no block of the list is empty, every page of two blocks or more,
\* closed or still being built, has at most 1.3 * TARGET_CHARS (3575)
\* characters in total.
C24_SharedPageCeiling ==
    NoEmptyBlock =>
        /\ \A p \in 1..Len(page_blocks) :
              Len(page_blocks[p]) >= 2 => 10 * PageChars(page_blocks[p]) <= 13 * TARGET_CHARS
        /\ Len(current_page) >= 2 => 10 * PageChars(current_page) <= 13 * TARGET_CHARS

\* a returned page of two blocks with more than MAX_CHARS characters
C24_Witness ==
    /\ pc = "done"
    /\ NoEmptyBlock
    /\ \E p \in 1..Len(page_blocks) :
          Len(page_blocks[p]) >= 2 /\ PageChars(page_blocks[p]) > MAX_CHARS

-----------------------------------------------------------------------------
(* Further properties of the image tools *)

\* images-to-pdf has finished the image of 3000 x 9000 pixels
ExampleImageDone == pc = "done" /\ img_width = 3000 /\ img_height = 9000

\* a and b differ by one at most
Near(a, b) == a - b \in {-1, 0, 1}

C28_PlacementInArea ==
    (Classified /\ can_fit /\ img_width > 0 /\ img_height > 0) =>
        /\ FLt(FZero, scaled_width)
        /\ FLe(scaled_width, FFromInt(UsableW))
        /\ FLt(FZero, scaled_height)
        /\ FLe(scaled_height, FFromInt(UsableH))

\* an image placed unshrunk that fills the usable area exactly
C28_Witness ==
    /\ pc = "done"
    /\ can_fit
    /\ SameValue(scaled_width, FFromInt(UsableW))
    /\ SameValue(scaled_height, FFromInt(UsableH))
    /\ SameValue(WidthFitHeight, FFromInt(UsableH))

\* C29: every slice that add_split_image appends has a rendered height,
\* (crop_y_end - crop_y_start) * scale, of at most usable_height.
C29_SliceFitsPage ==
    num_pages > 0 =>
        \A j \in 1..Len(StoryImages) :
            FLe(StoryImages[j].height, FFromInt(UsableH))

\* C30: every slice that the splitting branch of create_pdf emits crops a
\* source pixel row at least, int(crop_y_start) < int(crop_y_end), and no
\* slice fails for want of one.
C30_SliceHasRows ==
    (Classified /\ ~can_fit) =>
        /\ \A j \in 1..Len(Crops) : Crops[j][1] < Crops[j][2]
        /\ pc # "error"

-----------------------------------------------------------------------------
(* Further properties of parse_content_blocks *)

\* C25: every block that parse_content_blocks has emitted, at any point of
\* the scan, has content: its char_count is 1 at least.
C25_NoEmptyBlock ==
    \A j \in 1..Len(blocks) : blocks[j].char_count >= 1 /\ blocks[j].content # EmptyStr

\* every line of the block is a table row as the scanning loop sees it
OnlyTableRows(b) ==
    \A m \in 1..Len(BlockLines(b)) : IsTableLine(BlockLines(b)[m])

\* C26: at the start of every turn of the scanning loop in_table and
\* in_code_block are not both set; every emitted block of type table has a
\* line at least and table rows only; and no run of table rows is emitted
\* as a block of type paragraph.
C26_TableState ==
    /\ pc = "parse" => ~(in_table /\ in_code_block)
    /\ \A j \in 1..Len(blocks) :
          /\ blocks[j].block_type = "table" =>
                blocks[j].content # EmptyStr /\ OnlyTableRows(blocks[j])
          /\ blocks[j].block_type = "paragraph" => ~OnlyTableRows(blocks[j])

\* C27: parse_content_blocks returns on every text; every turn of the
\* scanning loop either moves the line index on or, leaving it where it is,
\* clears in_table, so that the same line is not taken again without a move
\* more than once.
C27_Terminates ==
    /\ <>(pc = "split")
    /\ [][Scanning =>
             \/ i' > i
             \/ i' = i /\ in_table /\ ~in_table']_vars

\* the line that ended a table has been taken once more and passed
C27_Witness ==
    /\ pc = "parse"
    /\ ~in_table
    /\ i > 1
    /\ \E j \in 1..Len(blocks) : blocks[j].block_type = "table"
    /\ ~IsTableLine(lines[i - 1])
    /\ ~IsFence(lines[i - 1])

====
